---- MODULE Spec2Model ----
(***************************************************************************)
(* A model of MondayConnector (src/src/index.ts): the registration of      *)
(* event subscriptions, the webhook dispatcher (handle and                 *)
(* handleWebhookEvent) and the API client shim (query and the operations   *)
(* built on it).                                                           *)
(*                                                                         *)
(* JavaScript strings that the code inspects character by character (ids   *)
(* matched against MONDAY_ID_REGEX, property keys) are sequences of        *)
(* tokens, one token per character; a fixed literal of a template string   *)
(* is one token.  Strings the code only compares are TLA+ strings.         *)
(***************************************************************************)
EXTENDS Integers, Sequences, FiniteSets, TLC

VARIABLES
    started,               \* BaseHttpConnector.started, read by handle()
    delegateInstalled,     \* app.registerHTTPDelegate(webhookPath, this) was called
    eventConfigurations,   \* this.eventConfigurations, in Object.values() order
    webhookLastChangedAt,  \* this.webhookLastChangedAt
    onCount,               \* number of EventConfiguration objects created by on()
    lastOn,                \* the last call of on() that threw: its arguments and the message
    removed,               \* the gen stamps of the subscriptions onRemoveEvent() deleted
    req,                   \* the deliveries to handle(), one record per request
    lastCompleted,         \* the event delivery whose handle() settled last
    sdkCalls,              \* the documents submitted to this._sdk.api, in order
    call                   \* the API operation in progress, and how it settled

vars == <<started, delegateInstalled, eventConfigurations, webhookLastChangedAt,
          onCount, lastOn, removed, req, lastCompleted, sdkCalls, call>>

dispatcherVars == <<started, delegateInstalled, eventConfigurations,
                    webhookLastChangedAt, onCount, lastOn, removed, req,
                    lastCompleted>>

apiVars == <<sdkCalls, call>>

(***************************************************************************)
(* Bounds of the model.                                                    *)
(***************************************************************************)
MaxSub == 1         \* successful on() calls in the specification of the deliveries
MaxReq == 2         \* deliveries to handle() in the specification of the deliveries
MaxOn == 2          \* successful on() calls in the specification of the fan-out
MaxFanReq == 1      \* deliveries to handle() in the specification of the fan-out
MaxRegOn == 2       \* successful on() calls in the specification of the registration
MaxApiCalls == 2    \* API operations started in the specification of the API shim

(***************************************************************************)
(* JavaScript values.                                                      *)
(***************************************************************************)
Undef == [t |-> "undefined", s |-> "", n |-> 0]
Str(x) == [t |-> "string", s |-> x, n |-> 0]
Num(k) == [t |-> "number", s |-> "", n |-> k]
Fn(x) == [t |-> "function", s |-> x, n |-> 0]

\* ToBoolean of the values above.
Truthy(v) ==
    \/ v.t = "function"
    \/ v.t = "string" /\ v.s # ""
    \/ v.t = "number" /\ v.n # 0

Digits == {"0", "1", "2", "3", "4", "5", "6", "7", "8", "9"}

DigitChar(d) ==
    CASE d = 0 -> "0" [] d = 1 -> "1" [] d = 2 -> "2" [] d = 3 -> "3"
      [] d = 4 -> "4" [] d = 5 -> "5" [] d = 6 -> "6" [] d = 7 -> "7"
      [] d = 8 -> "8" [] d = 9 -> "9"

DigitVal(c) == CHOOSE d \in 0..9 : DigitChar(d) = c

\* String(n) of a non-negative integer: its decimal digits.
RECURSIVE NatToChars(_)
NatToChars(n) ==
    IF n < 10 THEN <<DigitChar(n)>>
    ELSE Append(NatToChars(n \div 10), DigitChar(n % 10))

\* The number a digit string denotes.
RECURSIVE CharsToNat(_)
CharsToNat(cs) ==
    IF cs = <<>> THEN 0
    ELSE 10 * CharsToNat(SubSeq(cs, 1, Len(cs) - 1)) + DigitVal(cs[Len(cs)])

\* A board id argument is a number or a string (string | number).
NumArg(k) == [t |-> "number", n |-> k, chars |-> <<>>]
StrArg(cs) == [t |-> "string", n |-> 0, chars |-> cs]

\* String(x) of such an argument.
JSString(x) == IF x.t = "number" THEN NatToChars(x.n) ELSE x.chars

\* An optional string argument: undefined, or a string.
Absent == [def |-> FALSE, chars |-> <<>>]
Given(cs) == [def |-> TRUE, chars |-> cs]

\* x || '' of an optional string.
OrEmpty(x) == IF x.def /\ x.chars # <<>> THEN x.chars ELSE <<>>

\* MONDAY_ID_REGEX.test(cs) for /^\d{9,10}$/.
MONDAY_ID_REGEX(cs) ==
    /\ Len(cs) \in 9..10
    /\ \A i \in 1..Len(cs) : cs[i] \in Digits

JS_TO_MONDAY_EVENT_NAMES ==
    [IncomingNotification |-> "incoming_notification",
     ChangeColumnValue |-> "change_column_value",
     ChangeSpecificColumnValue |-> "change_specific_column_value",
     CreateItem |-> "create_item",
     CreateUpdate |-> "create_update"]

MONDAY_TO_JS_EVENT_NAMES ==
    [incoming_notification |-> "IncomingNotification",
     change_column_value |-> "ChangeColumnValue",
     update_column_value |-> "ChangeColumnValue",
     change_specific_column_value |-> "ChangeSpecificColumnValue",
     update_specific_column_value |-> "ChangeSpecificColumnValue",
     create_item |-> "CreateItem",
     create_update |-> "CreateUpdate"]

\* Both tables are object literals: a key they do not own is looked up on
\* Object.prototype, whose properties are functions.
ObjectPrototypeKeys ==
    {"constructor", "hasOwnProperty", "isPrototypeOf", "propertyIsEnumerable",
     "toLocaleString", "toString", "valueOf"}

\* table[key] of an object literal.
Lookup(table, key) ==
    IF key \in DOMAIN table THEN Str(table[key])
    ELSE IF key \in ObjectPrototypeKeys THEN Fn(key)
    ELSE Undef

RecognizedTypes == DOMAIN JS_TO_MONDAY_EVENT_NAMES

(***************************************************************************)
(* Event subscriptions: on(), onRemoveEvent(), onStart().                  *)
(***************************************************************************)

\* this.id of the connector, as the base class keeps it.
ConnectorId == "connector"

\* An EventConfiguration: its id, its options, and two ghost stamps: gen
\* numbers the on() call that created the object, keyGen the on() call that
\* created its property in this.eventConfigurations.
EventConfiguration(id, options, gen) ==
    [id |-> id, options |-> options, gen |-> gen, keyGen |-> gen]

\* The validation of on(): the message of the Error it throws, "" when it
\* throws none.
OnError(options) ==
    IF ~MONDAY_ID_REGEX(JSString(options.boardId)) THEN "Invalid board id"
    ELSE IF ~Truthy(Lookup(JS_TO_MONDAY_EVENT_NAMES, options.type))
         THEN "Invalid event type"
    ELSE IF /\ options.type = "ChangeSpecificColumnValue"
            /\ ~MONDAY_ID_REGEX(OrEmpty(options.columnId))
         THEN "Invalid column id for type ChangeSpecificColumnValue"
    ELSE ""

\* eventId || `MondayConnector/${options.boardId}/${options.type}/${this.id}`
EventIdOf(options, eventId) ==
    IF OrEmpty(eventId) # <<>> THEN eventId.chars
    ELSE <<"MondayConnector/">> \o JSString(options.boardId)
            \o <<"/", options.type, "/", ConnectorId>>

\* A property key that is an array index: a canonical decimal numeral. Such
\* keys are enumerated first, in ascending numeric order (the ids of the
\* model have at most nine digits, far below 2^32 - 1).
IsArrayIndex(id) ==
    /\ Len(id) \in 1..9
    /\ \A i \in 1..Len(id) : id[i] \in Digits
    /\ (Len(id) > 1 => id[1] # "0")

\* Where a new property key is enumerated among the existing ones.
InsertAt(ecs, id) ==
    IF IsArrayIndex(id)
    THEN 1 + Cardinality({i \in 1..Len(ecs) :
                 IsArrayIndex(ecs[i].id) /\ CharsToNat(ecs[i].id) < CharsToNat(id)})
    ELSE Len(ecs) + 1

\* A mutant of the assignment: every new key is enumerated last.
SetProperty_appendOnly(ecs, ec) ==
    IF \E i \in 1..Len(ecs) : ecs[i].id = ec.id
    THEN [i \in 1..Len(ecs) |->
            IF ecs[i].id = ec.id THEN [ec EXCEPT !.keyGen = ecs[i].keyGen]
            ELSE ecs[i]]
    ELSE Append(ecs, ec)

\* this.eventConfigurations[event.id] = event: an existing key keeps its
\* place, a new one is placed in property order.
SetProperty(ecs, ec) ==
    IF \E i \in 1..Len(ecs) : ecs[i].id = ec.id
    THEN [i \in 1..Len(ecs) |->
            IF ecs[i].id = ec.id THEN [ec EXCEPT !.keyGen = ecs[i].keyGen]
            ELSE ecs[i]]
    ELSE LET k == InsertAt(ecs, ec.id)
         IN SubSeq(ecs, 1, k - 1) \o <<ec>> \o SubSeq(ecs, k, Len(ecs))

\* A mutant of the removal: nothing is deleted.
DeleteProperty_keep(ecs, id) == ecs

\* delete this.eventConfigurations[id]
DeleteProperty(ecs, id) ==
    LET Keep(e) == e.id # id IN SelectSeq(ecs, Keep)

\* A mutant of onStart's guard: the delegate is installed unconditionally.
OnStartInstalls_always(ecs) == TRUE

\* 0 < Object.keys(this.eventConfigurations).length
OnStartInstalls(ecs) == 0 < Len(ecs)

\* connector.start(): the base class calls onStart() and sets started.
onStart ==
    /\ ~started
    /\ started' = TRUE
    /\ delegateInstalled' = (delegateInstalled \/ OnStartInstalls(eventConfigurations))
    /\ UNCHANGED <<eventConfigurations, webhookLastChangedAt, onCount, lastOn,
                   removed, req, lastCompleted, apiVars>>

\* on(options, handler, eventId), at most max successful calls.
on(options, eventId, max) ==
    /\ LET err == OnError(options)
           ec == EventConfiguration(EventIdOf(options, eventId),
                     [boardId |-> JSString(options.boardId),
                      type |-> options.type,
                      columnId |-> options.columnId],
                     onCount + 1)
       IN IF err # ""
          THEN /\ lastOn' = [options |-> options, eventId |-> eventId, error |-> err]
               /\ UNCHANGED <<eventConfigurations, onCount>>
          ELSE /\ onCount < max
               /\ eventConfigurations' = SetProperty(eventConfigurations, ec)
               /\ onCount' = onCount + 1
               /\ UNCHANGED lastOn
    /\ UNCHANGED <<started, delegateInstalled, webhookLastChangedAt, removed,
                   req, lastCompleted, apiVars>>

\* The ids of the subscriptions in the set.
Ids(ecs) == {ecs[i].id : i \in 1..Len(ecs)}

\* onRemoveEvent(ec), for an EventConfiguration ec that on() returned and
\* whose id is in the set (the deletion of an absent key changes nothing).
onRemoveEvent(id) ==
    /\ id \in Ids(eventConfigurations)
    /\ eventConfigurations' = DeleteProperty(eventConfigurations, id)
    /\ removed' = removed \cup
           {eventConfigurations[i].gen :
               i \in {j \in 1..Len(eventConfigurations) : eventConfigurations[j].id = id}}
    /\ UNCHANGED <<started, delegateInstalled, webhookLastChangedAt, onCount,
                   lastOn, req, lastCompleted, apiVars>>

(***************************************************************************)
(* The webhook dispatcher: handle() and handleWebhookEvent().              *)
(*                                                                         *)
(* handle() runs without interruption up to an await. The await of         *)
(* app.handleEvent() suspends it until the host framework settles the      *)
(* promise; other deliveries and calls run in between. When the promise    *)
(* resolves, the loop goes on to the next matching subscription or ends,   *)
(* and handle() stores the watermark and returns, in one run of            *)
(* microtasks.                                                             *)
(***************************************************************************)
Reqs == 1..MaxReq

NoEvent == [boardId |-> 0, type |-> "", changedAt |-> 0]

\* How the last event delivery (a body without challenge) settled: "none"
\* before the first, "returned" or "failed", with its changedAt and whether
\* the connector was started when it entered handle().
NoDelivery == [kind |-> "none", changedAt |-> 0, started |-> FALSE]

IdleReq ==
    [pc |-> "idle",
     body |-> [challenge |-> "", event |-> NoEvent],
     json |-> <<>>,        \* the bodies written with res.json()
     fanout |-> FALSE,     \* handleWebhookEvent() was called
     snap |-> <<>>,        \* Object.values(this.eventConfigurations) of the loop
     running |-> {},       \* positions in snap whose app.handleEvent() is pending
     dispatched |-> <<>>,  \* the app.handleEvent() calls made, in order
     ncalls |-> 0,         \* their number, kept when the request has settled
     overlap |-> FALSE,    \* a call was made while another was pending
     rejected |-> FALSE,   \* a promise of app.handleEvent() rejected
     entry |-> [started |-> FALSE, alone |-> TRUE, prev |-> NoDelivery,
                removed |-> {}]]

\* A mutant of the challenge test: a challenge is answered only once started.
HasChallenge_whenStarted(body) == started /\ Truthy(Str(body.challenge))

\* if (req.body.challenge)
HasChallenge(body) == Truthy(Str(body.challenge))

\* A mutant of the duplicate test: every delivery is taken as new.
IsNew_always(watermark, ev) == TRUE

\* this.webhookLastChangedAt !== ev.changedAt
IsNew(watermark, ev) == watermark # Num(ev.changedAt)

\* The fields of the MondayEvent that the dispatch reads: String(ev.boardId),
\* MONDAY_TO_JS_EVENT_NAMES[ev.type], ev.changedAt.
NormalizeEvent(ev) ==
    [boardId |-> NatToChars(ev.boardId),
     type |-> Lookup(MONDAY_TO_JS_EVENT_NAMES, ev.type),
     changedAt |-> ev.changedAt]

\* A mutant of the match: the event type is not compared.
Matches_boardOnly(o, event) == o.boardId = event.boardId

\* o.boardId === event.boardId && o.type === event.type
Matches(o, event) == o.boardId = event.boardId /\ Str(o.type) = event.type

\* The first position from `from` on whose subscription matches, 0 if none.
NextMatch(snap, from, event) ==
    LET hits == {i \in from..Len(snap) : Matches(snap[i].options, event)}
    IN IF hits = {} THEN 0 ELSE CHOOSE i \in hits : \A j \in hits : i <= j

\* The loop of handleWebhookEvent from position `from`: the positions whose
\* app.handleEvent() it calls before it is suspended (one, or none when the
\* loop ends).
CallsFrom(snap, from, event) ==
    LET i == NextMatch(snap, from, event) IN IF i = 0 THEN {} ELSE {i}

\* The positions of a set, in ascending order.
RECURSIVE Ascending(_)
Ascending(S) ==
    IF S = {} THEN <<>>
    ELSE LET m == CHOOSE i \in S : \A j \in S : i <= j
         IN <<m>> \o Ascending(S \ {m})

CallRecords(snap, S) ==
    [k \in 1..Cardinality(S) |->
        LET ec == snap[Ascending(S)[k]]
        IN [id |-> ec.id, gen |-> ec.gen, keyGen |-> ec.keyGen]]

InFlight == {r \in Reqs : req[r].pc = "awaiting"}

\* A request whose handle() has settled: what was local to the call is gone.
Settle(q, pc) ==
    [q EXCEPT !.pc = pc, !.snap = <<>>, !.running = {}, !.dispatched = <<>>,
              !.ncalls = Len(q.dispatched),
              !.entry = [q.entry EXCEPT !.removed = {}]]

Completed(kind, body, wasStarted) ==
    [kind |-> kind, changedAt |-> body.event.changedAt, started |-> wasStarted]

\* res.json({ challenge: req.body.challenge })
ChallengeResponse(body) == [challenge |-> body.challenge]

\* A mutant of the store: the watermark keeps the latest stamp seen.
StoreWatermark_keepLatest(watermark, ev) ==
    IF watermark.t = "number" /\ watermark.n > ev.changedAt THEN watermark
    ELSE Num(ev.changedAt)

\* this.webhookLastChangedAt = ev.changedAt
StoreWatermark(watermark, ev) == Num(ev.changedAt)

\* handle(req, res) up to its first await, or to its return.
handle(r, body) ==
    /\ req[r].pc = "idle"
    /\ \A q \in Reqs : q < r => req[q].pc # "idle"
    /\ LET entry == [started |-> started, alone |-> InFlight = {},
                     prev |-> lastCompleted,
                     removed |-> removed]
           base == [IdleReq EXCEPT !.body = body, !.entry = entry]
           event == NormalizeEvent(body.event)
           snap == eventConfigurations
           first == CallsFrom(snap, 1, event)
       IN IF HasChallenge(body)
          THEN /\ req' = [req EXCEPT ![r] = Settle([base EXCEPT
                              !.json = <<ChallengeResponse(body)>>], "done")]
               /\ UNCHANGED <<webhookLastChangedAt, lastCompleted>>
          ELSE IF started /\ IsNew(webhookLastChangedAt, body.event)
          THEN IF first = {}
               THEN /\ req' = [req EXCEPT ![r] =
                                   Settle([base EXCEPT !.fanout = TRUE], "done")]
                    /\ webhookLastChangedAt' =
                           StoreWatermark(webhookLastChangedAt, body.event)
                    /\ lastCompleted' = Completed("returned", body, started)
               ELSE /\ req' = [req EXCEPT ![r] = [base EXCEPT
                                   !.pc = "awaiting", !.fanout = TRUE,
                                   !.snap = snap, !.running = first,
                                   !.dispatched = CallRecords(snap, first),
                                   !.overlap = Cardinality(first) > 1]]
                    /\ UNCHANGED <<webhookLastChangedAt, lastCompleted>>
          ELSE /\ req' = [req EXCEPT ![r] = Settle(base, "done")]
               /\ lastCompleted' = Completed("returned", body, started)
               /\ UNCHANGED webhookLastChangedAt
    /\ UNCHANGED <<started, delegateInstalled, eventConfigurations, onCount,
                   lastOn, removed, apiVars>>

\* The promise of app.handleEvent() at position i resolves: the loop goes
\* on; when it ends, handle() stores the watermark and returns true.
handlerReturns(r, i) ==
    /\ req[r].pc = "awaiting"
    /\ i \in req[r].running
    /\ LET q == req[r]
           event == NormalizeEvent(q.body.event)
           more == CallsFrom(q.snap, i + 1, event)
           left == (q.running \ {i}) \cup more
       IN IF left = {}
          THEN /\ req' = [req EXCEPT ![r] = Settle(q, "done")]
               /\ webhookLastChangedAt' =
                      StoreWatermark(webhookLastChangedAt, q.body.event)
               /\ lastCompleted' = Completed("returned", q.body, q.entry.started)
          ELSE /\ req' = [req EXCEPT ![r] = [q EXCEPT
                              !.running = left,
                              !.dispatched = q.dispatched \o CallRecords(q.snap, more),
                              !.overlap = q.overlap \/ (more # {} /\ Cardinality(left) > 1)]]
               /\ UNCHANGED <<webhookLastChangedAt, lastCompleted>>
    /\ UNCHANGED <<started, delegateInstalled, eventConfigurations, onCount,
                   lastOn, removed, apiVars>>

\* A mutant of the rejection: the dispatcher catches it, and the loop goes
\* on as if the handler had returned.
handlerThrows_caught(r, i) ==
    /\ req[r].pc = "awaiting"
    /\ i \in req[r].running
    /\ LET q == [req[r] EXCEPT !.rejected = TRUE]
           event == NormalizeEvent(q.body.event)
           more == CallsFrom(q.snap, i + 1, event)
       IN IF more = {}
          THEN /\ req' = [req EXCEPT ![r] = Settle(q, "done")]
               /\ webhookLastChangedAt' =
                      StoreWatermark(webhookLastChangedAt, q.body.event)
               /\ lastCompleted' = Completed("returned", q.body, q.entry.started)
          ELSE /\ req' = [req EXCEPT ![r] = [q EXCEPT
                              !.running = more,
                              !.dispatched = q.dispatched \o CallRecords(q.snap, more)]]
               /\ UNCHANGED <<webhookLastChangedAt, lastCompleted>>
    /\ UNCHANGED <<started, delegateInstalled, eventConfigurations, onCount,
                   lastOn, removed, apiVars>>

\* The promise of app.handleEvent() rejects: the rejection leaves the loop,
\* handleWebhookEvent() and handle().
handlerThrows(r, i) ==
    /\ req[r].pc = "awaiting"
    /\ i \in req[r].running
    /\ req' = [req EXCEPT ![r] = Settle([req[r] EXCEPT !.rejected = TRUE], "failed")]
    /\ lastCompleted' = Completed("failed", req[r].body, req[r].entry.started)
    /\ UNCHANGED <<started, delegateInstalled, eventConfigurations,
                   webhookLastChangedAt, onCount, lastOn, removed, apiVars>>

(***************************************************************************)
(* The API client shim: query() and updateColumnValues().                  *)
(*                                                                         *)
(* A response of this._sdk.api is a MondayApiReponse: data, errors and     *)
(* error_message are optional. data is "absent" when the response has no   *)
(* data property, else its payload; errors is a list of messages when      *)
(* hasErrors; error_message is "" when absent.                             *)
(***************************************************************************)
Response(data, hasErrors, errors, error_message) ==
    [data |-> data, hasErrors |-> hasErrors, errors |-> errors,
     error_message |-> error_message]

\* The data of a response: absent, null, or an object (with its items when
\* it answers the read of an item).
NoData == [kind |-> "absent", items |-> <<>>]
NullData == [kind |-> "null", items |-> <<>>]
Data(items) == [kind |-> "object", items |-> items]

\* The data that answers CREATE_ITEM_QUERY: { create_item: { id } }.
Created(id) == [kind |-> "object", items |-> <<>>, create_item |-> [id |-> id]]

NoResponse == Response(NoData, FALSE, <<>>, "")

\* The message of new MondayError(res).
MondayErrorMessage(res) ==
    <<"Monday API Error">> \o
    (IF res.hasErrors
     THEN IF Len(res.errors) = 1 THEN <<res.errors[1]>>
          ELSE <<"s (">> \o NatToChars(Len(res.errors)) \o <<")">>
     ELSE IF res.error_message # "" THEN <<res.error_message>>
     ELSE <<>>)

NoError == [kind |-> "", message |-> <<>>, res |-> NoResponse]
MondayError(res) ==
    [kind |-> "MondayError", message |-> MondayErrorMessage(res), res |-> res]
Error(kind, message) == [kind |-> kind, message |-> message, res |-> NoResponse]

\* query() once this._sdk.api has resolved with res: res.data when
\* 'data' in res, else a MondayError of res.
QueryOutcome(res) ==
    IF res.data.kind # "absent"
    THEN [ok |-> TRUE, value |-> res.data, error |-> NoError]
    ELSE [ok |-> FALSE, value |-> NoData, error |-> MondayError(res)]

Null == [t |-> "null", s |-> "", n |-> 0]

\* JSON.parse of a column value's text: a number, or null.
JSONParse(text) == IF text = <<"null">> THEN Null ELSE Num(CharsToNat(text))

\* The updater functions of the model: "inc" adds one (null + 1 is 1),
\* "seven" returns 7, "same" returns its argument.
ApplyUpdater(f, v) ==
    CASE f = "inc" -> Num(v.n + 1)
      [] f = "seven" -> Num(7)
      [] f = "same" -> v

\* String(v) of a number or null.
StringOf(v) == IF v.t = "null" THEN <<"null">> ELSE NatToChars(v.n)

\* typeof updater === 'function'
IsFunction(f) == f \in {"inc", "seven", "same"}

\* columnValues.find((cv) => cv.title === title): its position, 0 if none.
Find(columnValues, title) ==
    LET hits == {i \in 1..Len(columnValues) : columnValues[i].title = title}
    IN IF hits = {} THEN 0 ELSE CHOOSE i \in hits : \A j \in hits : i <= j

\* newValues with newValues[id] = text assigned.
Assign(newValues, id, text) ==
    [k \in DOMAIN newValues \cup {id} |-> IF k = id THEN text ELSE newValues[k]]

\* A mutant of the loop: a title that is not found, or whose updater is no
\* function, is skipped and the other columns are updated.
RECURSIVE BuildNewValues_skipMissing(_, _, _, _)
BuildNewValues_skipMissing(columnValues, updaters, k, newValues) ==
    IF k > Len(updaters)
    THEN [ok |-> TRUE, newValues |-> newValues, error |-> NoError]
    ELSE LET i == Find(columnValues, updaters[k].title)
         IN IF i = 0 \/ ~IsFunction(updaters[k].updater)
            THEN BuildNewValues_skipMissing(columnValues, updaters, k + 1, newValues)
            ELSE BuildNewValues_skipMissing(columnValues, updaters, k + 1,
                     Assign(newValues, columnValues[i].id,
                         StringOf(ApplyUpdater(updaters[k].updater,
                                               JSONParse(columnValues[i].value)))))

\* The loop of updateColumnValues from the k-th key of updaters on: the
\* newValues it builds, or the Error it throws.
RECURSIVE BuildNewValues(_, _, _, _)
BuildNewValues(columnValues, updaters, k, newValues) ==
    IF k > Len(updaters)
    THEN [ok |-> TRUE, newValues |-> newValues, error |-> NoError]
    ELSE LET title == updaters[k].title
             i == Find(columnValues, title)
         IN IF i = 0
            THEN [ok |-> FALSE, newValues |-> newValues,
                  error |-> Error("Error", <<"Column title not found: ", title>>)]
            ELSE IF ~IsFunction(updaters[k].updater)
            THEN [ok |-> FALSE, newValues |-> newValues,
                  error |-> Error("Error", <<"Missing or invalid updater for: ", title>>)]
            ELSE BuildNewValues(columnValues, updaters, k + 1,
                     Assign(newValues, columnValues[i].id,
                         StringOf(ApplyUpdater(updaters[k].updater,
                                               JSONParse(columnValues[i].value)))))

\* The promise createItem() returned to its caller: not called, pending,
\* resolved with the item's id, or rejected; given tells whether the
\* columnValues argument was truthy.
NoCreator == [pc |-> "none", given |-> FALSE, itemId |-> ""]

\* The API operation in progress. n counts the operations started; item is
\* the column_values the read returned and res the response query() got;
\* creator is the createItem() that started the operation, if one did.
IdleCall ==
    [n |-> 0, op |-> "none", pc |-> "idle", updaters |-> <<>>,
     read |-> FALSE, item |-> <<>>, res |-> NoResponse,
     value |-> NoData, error |-> NoError, creator |-> NoCreator]

Settled == call.pc \in {"idle", "returned", "threw"}

\* this._sdk.api(document) is called by operation n.
Submit(n, kind, values) ==
    Append(sdkCalls, [n |-> n, kind |-> kind, values |-> values])

\* query(qs, variables) up to its await of this._sdk.api.
query ==
    /\ Settled
    /\ call.n < MaxApiCalls
    /\ call' = [IdleCall EXCEPT !.n = call.n + 1, !.op = "query", !.pc = "awaitSdk"]
    /\ sdkCalls' = Submit(call.n + 1, "query", << >>)
    /\ UNCHANGED dispatcherVars

\* this._sdk.api resolves with res: query() returns or throws.
queryReturns(res) ==
    /\ call.op = "query"
    /\ call.pc = "awaitSdk"
    /\ LET out == QueryOutcome(res)
       IN call' = [call EXCEPT !.pc = IF out.ok THEN "returned" ELSE "threw",
                               !.res = res, !.value = out.value, !.error = out.error]
    /\ UNCHANGED <<sdkCalls, dispatcherVars>>

\* this._sdk.api rejects (the transport failed): the rejection leaves
\* query() and the operation that awaits it.
sdkRejects ==
    /\ call.pc \in {"awaitSdk", "awaitRead", "awaitMutation", "awaitCreate"}
    /\ call' = [call EXCEPT !.pc = "threw",
                            !.error = Error("Rejected", <<"request failed">>),
                            !.creator.pc = IF call.pc = "awaitCreate" THEN "threw" ELSE @]
    /\ UNCHANGED <<sdkCalls, dispatcherVars>>

\* updateColumnValues(boardId, itemId, updaters) up to the await of its
\* read of the item.
updateColumnValues(updaters) ==
    /\ Settled
    /\ call.n < MaxApiCalls
    /\ call' = [IdleCall EXCEPT !.n = call.n + 1, !.op = "updateColumnValues",
                                !.pc = "awaitRead", !.updaters = updaters]
    /\ sdkCalls' = Submit(call.n + 1, "readItem", << >>)
    /\ UNCHANGED dispatcherVars

\* The read resolves with res: the loop over the updaters, then the
\* mutation is submitted, unless something was thrown before.
updateColumnValuesRead(res) ==
    /\ call.op = "updateColumnValues"
    /\ call.pc = "awaitRead"
    /\ LET out == QueryOutcome(res)
       IN IF ~out.ok
          THEN /\ call' = [call EXCEPT !.pc = "threw", !.res = res,
                                       !.error = out.error]
               /\ UNCHANGED sdkCalls
          ELSE IF out.value.kind = "null"
          THEN /\ call' = [call EXCEPT !.pc = "threw", !.res = res,
                               !.error = Error("Error", <<"Unable to read item">>)]
               /\ UNCHANGED sdkCalls
          ELSE IF out.value.items = <<>>
          THEN /\ call' = [call EXCEPT !.pc = "threw", !.res = res,
                               !.error = Error("TypeError", <<"items[0] is undefined">>)]
               /\ UNCHANGED sdkCalls
          ELSE LET columnValues == out.value.items[1].column_values
                   built == BuildNewValues(columnValues, call.updaters, 1, << >>)
               IN IF ~built.ok
                  THEN /\ call' = [call EXCEPT !.pc = "threw", !.res = res,
                                       !.read = TRUE, !.item = columnValues,
                                       !.error = built.error]
                       /\ UNCHANGED sdkCalls
                  ELSE /\ call' = [call EXCEPT !.pc = "awaitMutation", !.res = res,
                                       !.read = TRUE, !.item = columnValues]
                       /\ sdkCalls' = Submit(call.n, "mutation", built.newValues)
    /\ UNCHANGED dispatcherVars

\* The mutation resolves with res: updateColumnValues returns, or throws
\* the MondayError of query().
updateColumnValuesDone(res) ==
    /\ call.op = "updateColumnValues"
    /\ call.pc = "awaitMutation"
    /\ LET out == QueryOutcome(res)
       IN call' = [call EXCEPT !.pc = IF out.ok THEN "returned" ELSE "threw",
                               !.error = out.error]
    /\ UNCHANGED <<sdkCalls, dispatcherVars>>

\* createItem(boardId, itemName, columnValues, groupId) up to the await of
\* its query(CREATE_ITEM_QUERY).
createItem(columnValues) ==
    /\ Settled
    /\ call.n < MaxApiCalls
    /\ call' = [IdleCall EXCEPT !.n = call.n + 1, !.op = "createItem",
                                !.pc = "awaitCreate",
                                !.updaters = columnValues.updaters,
                                !.creator = [pc |-> "pending",
                                             given |-> columnValues.given,
                                             itemId |-> ""]]
    /\ sdkCalls' = Submit(call.n + 1, "createItem", << >>)
    /\ UNCHANGED dispatcherVars

\* The creation resolves with res: createItem throws what query() threw or
\* the TypeError of res.create_item.id; otherwise it returns the id, after
\* it has called updateColumnValues, without await, when columnValues were
\* given: that call runs up to the await of its read and goes on by itself.
createItemCreated(res) ==
    /\ call.op = "createItem"
    /\ call.pc = "awaitCreate"
    /\ LET out == QueryOutcome(res)
       IN IF ~out.ok
          THEN /\ call' = [call EXCEPT !.pc = "threw", !.res = res,
                                       !.error = out.error, !.creator.pc = "threw"]
               /\ UNCHANGED sdkCalls
          ELSE IF "create_item" \notin DOMAIN out.value
          THEN /\ call' = [call EXCEPT !.pc = "threw", !.res = res,
                               !.error = Error("TypeError", <<"create_item is undefined">>),
                               !.creator.pc = "threw"]
               /\ UNCHANGED sdkCalls
          ELSE IF ~call.creator.given
          THEN /\ call' = [call EXCEPT !.pc = "returned", !.res = res,
                               !.value = out.value,
                               !.creator.pc = "returned",
                               !.creator.itemId = out.value.create_item.id]
               /\ UNCHANGED sdkCalls
          ELSE /\ call' = [call EXCEPT !.op = "updateColumnValues",
                               !.pc = "awaitRead", !.res = res,
                               !.creator.pc = "returned",
                               !.creator.itemId = out.value.create_item.id]
               /\ sdkCalls' = Submit(call.n, "readItem", << >>)
    /\ UNCHANGED dispatcherVars

(***************************************************************************)
(* Inputs.                                                                 *)
(***************************************************************************)
Board1 == NatToChars(123456789)
Board2 == NatToChars(1234567890)
Column1 == NatToChars(987654321)

Options(boardId, type, columnId) ==
    [boardId |-> boardId, type |-> type, columnId |-> columnId]

\* The arguments of on() in the registration specification.
RegBoardArgs ==
    {NumArg(123456789), StrArg(Board2), NumArg(12345678),
     StrArg(Board2 \o <<"1">>), StrArg(SubSeq(Board1, 1, 8) \o <<"x">>)}
RegTypeArgs ==
    {"ChangeColumnValue", "ChangeSpecificColumnValue", "change_column_value", "toString"}
RegColumnArgs == {Absent, Given(Column1), Given(<<"t", "e", "x", "t">>)}
RegArgs ==
    {[options |-> Options(b, t, c), eventId |-> Absent] :
        b \in RegBoardArgs, t \in RegTypeArgs, c \in RegColumnArgs}

\* The arguments of on() in the specification of the deliveries: one
\* subscription, which the events of the deliveries match.
SubArgs ==
    {[options |-> Options(NumArg(123456789), "ChangeColumnValue", Absent),
      eventId |-> Absent]}

\* The arguments of on() in the specification of the fan-out: subscriptions
\* of two boards and two types, with the default id and with ids the caller
\* supplies.
OnArgs ==
    {[options |-> Options(NumArg(123456789), "ChangeColumnValue", Absent), eventId |-> e] :
        e \in {Absent, Given(<<"2">>), Given(<<"1">>)}}
    \cup {[options |-> Options(NumArg(1234567890), "ChangeColumnValue", Absent),
           eventId |-> Absent],
          [options |-> Options(StrArg(Board1), "toString", Absent), eventId |-> Absent]}

\* The bodies delivered to handle(): a challenge (with an event beside it,
\* which handle() must ignore), or an event.
Event(boardId, type, changedAt) ==
    [boardId |-> boardId, type |-> type, changedAt |-> changedAt]
EventBodies ==
    {[challenge |-> "", event |-> Event(b, t, c)] :
        b \in {123456789}, t \in {"change_column_value", "update_column_value", "toString"},
        c \in {100, 200}}
ChallengeBodies ==
    {[challenge |-> k, event |-> Event(123456789, "change_column_value", 100)] :
        k \in {"tokenA", "tokenB"}}
Bodies == EventBodies \cup ChallengeBodies

\* The bodies delivered in the specification of the fan-out: an event whose
\* raw type is an alias in MONDAY_TO_JS_EVENT_NAMES, and one whose raw type
\* the table does not own.
FanBodies ==
    {[challenge |-> "", event |-> Event(123456789, "update_column_value", 100)],
     [challenge |-> "", event |-> Event(123456789, "toString", 200)]}

\* The responses of this._sdk.api to query().
ErrorLists == {<<>>, <<"bad query">>, <<"bad query", "bad field">>}
QueryResponses ==
    {Response(d, FALSE, <<>>, m) : d \in {NoData, NullData, Data(<<>>)},
                                   m \in {"", "Not Authenticated"}}
    \cup {Response(d, TRUE, e, "") : d \in {NoData, NullData, Data(<<>>)},
                                     e \in ErrorLists}

\* The column values of the item that updateColumnValues reads.
ColumnValue(id, title, value) == [id |-> id, title |-> title, value |-> value]
Items ==
    {<<ColumnValue("status", "Status", <<"1">>), ColumnValue("count", "Count", <<"4", "1">>)>>,
     <<ColumnValue("status", "Status", <<"null">>),
       ColumnValue("status2", "Status", <<"5">>)>>,
     <<>>}
ReadResponses ==
    {Response(Data(<<[column_values |-> cvs]>>), FALSE, <<>>, "") : cvs \in Items}
    \cup {Response(Data(<<>>), FALSE, <<>>, ""), Response(NullData, FALSE, <<>>, ""),
          Response(NoData, TRUE, <<"bad query">>, "")}
MutationResponses ==
    {Response(Data(<<>>), FALSE, <<>>, ""), Response(NoData, TRUE, <<"bad query">>, "")}

\* The updaters argument: its keys in property order, each with its value.
Updater(title, f) == [title |-> title, updater |-> f]
UpdaterArgs ==
    {<<>>}
    \cup {<<Updater(t, f)>> : t \in {"Status", "Count", "Owner"},
                              f \in {"inc", "seven", "same", "undefined"}}
    \cup {<<Updater("Status", f), Updater(t, g)>> :
              t \in {"Count", "Owner"}, f \in {"inc", "undefined"}, g \in {"seven", "undefined"}}

\* The columnValues argument of createItem: left out, an empty object, or
\* updaters of which some name no column of the new item.
CreateArgs ==
    {[given |-> FALSE, updaters |-> <<>>], [given |-> TRUE, updaters |-> <<>>]}
    \cup {[given |-> TRUE, updaters |-> <<Updater(t, "seven")>>] :
              t \in {"Status", "Owner"}}

\* The responses to CREATE_ITEM_QUERY.
CreateResponses ==
    {Response(Created("77"), FALSE, <<>>, ""), Response(Data(<<>>), FALSE, <<>>, ""),
     Response(NullData, FALSE, <<>>, ""), Response(NoData, TRUE, <<"bad query">>, "")}

(***************************************************************************)
(* Specifications.                                                         *)
(***************************************************************************)
Init ==
    /\ started = FALSE
    /\ delegateInstalled = FALSE
    /\ eventConfigurations = <<>>
    /\ webhookLastChangedAt = Undef
    /\ onCount = 0
    /\ lastOn = [options |-> Options(StrArg(<<>>), "", Absent), eventId |-> Absent,
                 error |-> ""]
    /\ removed = {}
    /\ req = [r \in Reqs |-> IdleReq]
    /\ lastCompleted = NoDelivery
    /\ sdkCalls = <<>>
    /\ call = IdleCall

\* The deliveries to the webhook dispatcher: challenges and events of
\* several stamps, interleaved, with one subscription.
Next ==
    \/ onStart
    \/ \E a \in SubArgs : on(a.options, a.eventId, MaxSub)
    \/ \E id \in Ids(eventConfigurations) : onRemoveEvent(id)
    \/ \E r \in Reqs, body \in Bodies : handle(r, body)
    \/ \E r \in Reqs : \E i \in req[r].running : handlerReturns(r, i)
    \/ \E r \in Reqs : \E i \in req[r].running : handlerThrows(r, i)

Spec == Init /\ [][Next]_vars

\* The fan-out of a delivery over several subscriptions.
NextFan ==
    \/ onStart
    \/ \E a \in OnArgs : on(a.options, a.eventId, MaxOn)
    \/ \E id \in Ids(eventConfigurations) : onRemoveEvent(id)
    \/ \E r \in 1..MaxFanReq, body \in FanBodies : handle(r, body)
    \/ \E r \in Reqs : \E i \in req[r].running : handlerReturns(r, i)
    \/ \E r \in Reqs : \E i \in req[r].running : handlerThrows(r, i)

SpecFan == Init /\ [][NextFan]_vars

\* The registration of subscriptions alone, over all kinds of arguments.
NextReg ==
    \/ onStart
    \/ \E a \in RegArgs : on(a.options, a.eventId, MaxRegOn)
    \/ \E id \in Ids(eventConfigurations) : onRemoveEvent(id)

SpecReg == Init /\ [][NextReg]_vars

\* The API client shim.
NextApi ==
    \/ query
    \/ \E res \in QueryResponses : queryReturns(res)
    \/ sdkRejects
    \/ \E u \in UpdaterArgs : updateColumnValues(u)
    \/ \E res \in ReadResponses : updateColumnValuesRead(res)
    \/ \E res \in MutationResponses : updateColumnValuesDone(res)
    \/ \E cv \in CreateArgs : createItem(cv)
    \/ \E res \in CreateResponses : createItemCreated(res)

SpecApi == Init /\ [][NextApi]_vars

(***************************************************************************)
(* Properties.                                                             *)
(***************************************************************************)
Began == {r \in Reqs : req[r].pc # "idle"}
Awaiting == {r \in Reqs : req[r].pc = "awaiting"}

\* The delivery's body is an event, without challenge token.
IsEventDelivery(r) == req[r].body.challenge = ""

\* The delivery entered handle() after the delivery before it had settled
\* and while no other was in flight.
Consecutive(r) == req[r].entry.alone /\ req[r].entry.prev.kind # "none"

SameChangedAt(r) == req[r].body.event.changedAt = req[r].entry.prev.changedAt

C2_Thm ==
    \A r \in Began :
        req[r].body.challenge # "" =>
            /\ req[r].json = <<[challenge |-> req[r].body.challenge]>>
            /\ req[r].pc = "done"
            /\ ~req[r].fanout
            /\ req[r].dispatched = <<>> /\ req[r].running = {}

\* C2's case: a challenge was answered on a started connector that holds a
\* subscription matching the event beside the challenge, with a watermark
\* that would not have suppressed that event; and another before the start.
C2_Witness ==
    /\ started
    /\ req[1].pc = "done" /\ req[1].body.challenge = "tokenA" /\ ~req[1].entry.started
    /\ req[2].pc = "done" /\ req[2].body.challenge = "tokenB" /\ req[2].entry.started
    /\ webhookLastChangedAt # Num(req[2].body.event.changedAt)
    /\ \E i \in 1..Len(eventConfigurations) :
           /\ eventConfigurations[i].options.boardId = NatToChars(req[2].body.event.boardId)
           /\ eventConfigurations[i].options.type = "ChangeColumnValue"

\* A string of nine or ten decimal digits.
NineOrTenDigits(cs) == Len(cs) \in {9, 10} /\ \A i \in 1..Len(cs) : cs[i] \in Digits

FiveTypes ==
    {"IncomingNotification", "ChangeColumnValue", "ChangeSpecificColumnValue",
     "CreateItem", "CreateUpdate"}

\* The boardId argument as the string on() tests.
BoardString(options) ==
    IF options.boardId.t = "number" THEN NatToChars(options.boardId.n)
    ELSE options.boardId.chars

\* The inputs C3 calls valid: columnId present iff the type is column-specific.
ClaimedValid(boardId, type, columnId) ==
    /\ NineOrTenDigits(boardId)
    /\ type \in FiveTypes
    /\ columnId.def <=> type = "ChangeSpecificColumnValue"
    /\ type = "ChangeSpecificColumnValue" => NineOrTenDigits(columnId.chars)

\* The inputs on() accepts: the type has a truthy entry in
\* JS_TO_MONDAY_EVENT_NAMES, its own or inherited, and a columnId is looked
\* at only for the column-specific type.
AcceptedValid(boardId, type, columnId) ==
    /\ NineOrTenDigits(boardId)
    /\ type \in FiveTypes \cup ObjectPrototypeKeys
    /\ type = "ChangeSpecificColumnValue" =>
           columnId.def /\ NineOrTenDigits(columnId.chars)

\* The subscriptions a step of on() added or replaced.
Added == {i \in 1..Len(eventConfigurations') : eventConfigurations'[i].gen = onCount'}

\* C3, as claimed, for the board id and the event type: on() throws for
\* every type that is not one of the five recognized names, so every
\* subscription in the set has a board id of 9-10 digits and one of the five
\* types.
C3_Claim ==
    \A i \in 1..Len(eventConfigurations) :
        LET o == eventConfigurations[i].options
        IN NineOrTenDigits(o.boardId) /\ o.type \in FiveTypes

\* C3's claim in full: the valid inputs are those with a columnId exactly
\* when the type is column-specific. TLC refutes it by a columnId given with
\* another type as well.
C3_ClaimInFull ==
    /\ lastOn.error # "" =>
           ~ClaimedValid(BoardString(lastOn.options), lastOn.options.type,
                         lastOn.options.columnId)
    /\ \A i \in 1..Len(eventConfigurations) :
           LET o == eventConfigurations[i].options
           IN ClaimedValid(o.boardId, o.type, o.columnId)

\* What on() does for C3: it adds a subscription for every input whose board id is
\* 9-10 digits, whose type has a truthy entry in JS_TO_MONDAY_EVENT_NAMES and
\* whose columnId, if the type is ChangeSpecificColumnValue, is 9-10 digits
\* (a columnId given with another type is stored unchecked); for every other
\* input it throws and leaves the subscription set unchanged. Every
\* subscription in the set has such a board id and type.
C3_Code ==
    /\ [](lastOn.error # "" =>
              ~AcceptedValid(BoardString(lastOn.options), lastOn.options.type,
                             lastOn.options.columnId))
    /\ [](\A i \in 1..Len(eventConfigurations) :
              LET o == eventConfigurations[i].options
              IN AcceptedValid(o.boardId, o.type, o.columnId))
    /\ [][/\ lastOn' # lastOn => eventConfigurations' = eventConfigurations
          /\ onCount' # onCount =>
                /\ Cardinality(Added) = 1
                /\ \A i \in 1..Len(eventConfigurations) :
                      \/ \E j \in 1..Len(eventConfigurations') :
                            eventConfigurations'[j] = eventConfigurations[i]
                      \/ \E j \in Added :
                            eventConfigurations'[j].id = eventConfigurations[i].id
                /\ Len(eventConfigurations') \in
                      {Len(eventConfigurations), Len(eventConfigurations) + 1}]_vars

\* on() has thrown for one input, and the set holds a subscription that
\* on() accepted with a columnId although its type is not column-specific,
\* beside a column-specific one.
C3_CodeWitness ==
    /\ lastOn.error = "Invalid column id for type ChangeSpecificColumnValue"
    /\ \E i, j \in 1..Len(eventConfigurations) :
           /\ eventConfigurations[i].options.type = "ChangeColumnValue"
           /\ eventConfigurations[i].options.columnId.def
           /\ eventConfigurations[j].options.type = "ChangeSpecificColumnValue"

\* C8, as claimed: the HTTP delegate is installed exactly when at least one
\* subscription is registered.
C8_Claim == delegateInstalled <=> eventConfigurations # <<>>

\* C8, amended: the delegate is installed by onStart(), exactly when a
\* subscription is registered at that moment; no other call installs or
\* removes it.
C8_Thm ==
    [][IF started' # started
       THEN delegateInstalled' = (eventConfigurations # <<>>)
       ELSE delegateInstalled' = delegateInstalled]_vars

\* C8's case: the connector was started without subscriptions and one was
\* registered afterwards, and the delegate is not installed.
C8_Witness == started /\ eventConfigurations # <<>> /\ ~delegateInstalled

\* The subscription's board id is the event's, as a string, and its type is
\* the event's raw type translated through MONDAY_TO_JS_EVENT_NAMES.
ShouldReceive(ec, ev) ==
    /\ ec.options.boardId = NatToChars(ev.boardId)
    /\ ev.type \in DOMAIN MONDAY_TO_JS_EVENT_NAMES
    /\ ec.options.type = MONDAY_TO_JS_EVENT_NAMES[ev.type]

\* The calls that reach exactly the subscriptions of ecs that should receive
\* ev, once each, in the order of ecs.
ExpectedCalls(ecs, ev) ==
    LET Hit(ec) == ShouldReceive(ec, ev)
        hits == SelectSeq(ecs, Hit)
    IN [k \in 1..Len(hits) |->
           [id |-> hits[k].id, gen |-> hits[k].gen, keyGen |-> hits[k].keyGen]]

\* The event delivery r is not a duplicate: its changedAt is not the watermark.
NotDuplicate(r, body) == body.challenge = "" /\ webhookLastChangedAt # Num(body.event.changedAt)

\* The calls a step that settles delivery r has made in all.
CallsMade(r) == req[r].dispatched

\* C4, as claimed: every event delivery that is not a duplicate invokes the
\* handlers of exactly the live subscriptions matching its board and
\* translated type, once each, whatever the state of the connector and
\* however the handlers end.
C4_Claim ==
    [][\A r \in Reqs :
         /\ req[r].pc = "idle" /\ req'[r].pc \in {"done", "failed"}
                /\ NotDuplicate(r, req'[r].body)
                => ExpectedCalls(eventConfigurations, req'[r].body.event) = <<>>
         /\ req[r].pc = "awaiting" /\ req'[r].pc \in {"done", "failed"}
                => CallsMade(r) = ExpectedCalls(req[r].snap, req[r].body.event)]_vars

\* C4, amended: on a started connector, every event delivery that is not a
\* duplicate and whose fan-out no handler failure ends invokes the handlers
\* of exactly the subscriptions that were live when the fan-out began and
\* match its board and translated type, once each; a fan-out that a failure
\* ends has invoked a prefix of them; a raw type without entry in the table
\* matches none.
C4_Thm ==
    /\ [][\A r \in Reqs :
            /\ req[r].pc = "idle" /\ req'[r].pc = "done" /\ started
                   /\ NotDuplicate(r, req'[r].body)
                   => /\ req'[r].fanout
                      /\ ExpectedCalls(eventConfigurations, req'[r].body.event) = <<>>
            /\ req[r].pc = "idle" /\ req'[r].pc = "awaiting"
                   => /\ started /\ NotDuplicate(r, req'[r].body)
                      /\ req'[r].snap = eventConfigurations
            /\ req[r].pc = "awaiting" /\ req'[r].pc = "done"
                   => CallsMade(r) = ExpectedCalls(req[r].snap, req[r].body.event)]_vars
    /\ [](\A r \in Awaiting :
            LET want == ExpectedCalls(req[r].snap, req[r].body.event)
            IN /\ req[r].dispatched # <<>>
               /\ Len(req[r].dispatched) <= Len(want)
               /\ req[r].dispatched = SubSeq(want, 1, Len(req[r].dispatched)))
    /\ [](\A r \in Began : req[r].ncalls > 0 => req[r].fanout /\ IsEventDelivery(r))

\* C4's case: a fan-out is under way that passed over a live subscription
\* of the event's board whose type is not the event's, and has invoked the
\* handler of the matching one behind it.
C4_Witness ==
    \E r \in Awaiting :
        /\ req[r].body.event.type = "update_column_value"
        /\ Len(req[r].snap) = 2
        /\ req[r].snap[1].options.boardId = NatToChars(req[r].body.event.boardId)
        /\ req[r].snap[1].options.type = "toString"
        /\ Len(req[r].dispatched) = 1
        /\ req[r].dispatched[1].gen = req[r].snap[2].gen

\* Place in the property order of an object: integer-like keys first, in
\* ascending numeric order, then the other keys in the order of creation.
Precedes(a, b) ==
    IF IsArrayIndex(a.id)
    THEN IsArrayIndex(b.id) => CharsToNat(a.id) < CharsToNat(b.id)
    ELSE ~IsArrayIndex(b.id) /\ a.keyGen < b.keyGen

C9_Claim ==
    \A r \in Began :
        IsEventDelivery(r) /\ req[r].pc = "done" /\ req[r].ncalls > 0
            => req[r].json # <<>>

\* C10: onRemoveEvent(ec) deletes the one subscription of ec's id, keeps the
\* others in their order, leaves the watermark, the deliveries and the
\* installation alone and submits nothing to the API; a delivery that enters
\* handle() afterwards dispatches to no handler of the deleted subscription.
C10_Thm ==
    /\ [][removed' # removed =>
            LET gone == removed' \ removed
                Stays(ec) == ec.gen \notin gone
            IN /\ Cardinality(gone) = 1
               /\ \E i \in 1..Len(eventConfigurations) : eventConfigurations[i].gen \in gone
               /\ eventConfigurations' = SelectSeq(eventConfigurations, Stays)
               /\ Len(eventConfigurations') = Len(eventConfigurations) - 1
               /\ UNCHANGED <<webhookLastChangedAt, sdkCalls, call, req, started,
                              delegateInstalled>>]_vars
    /\ [](\A r \in Awaiting : \A k \in 1..Len(req[r].dispatched) :
              req[r].dispatched[k].gen \notin req[r].entry.removed)
    /\ [](\A i \in 1..Len(eventConfigurations) : eventConfigurations[i].gen \notin removed)

\* C10's case: of two subscriptions one was removed, and a delivery that
\* entered handle() afterwards is dispatched to the one that stayed.
C10_Witness ==
    /\ Len(eventConfigurations) = 1
    /\ \E r \in Awaiting :
           /\ req[r].entry.removed # {}
           /\ Len(req[r].dispatched) = 1
           /\ req[r].dispatched[1].gen = eventConfigurations[1].gen
           /\ \A i \in 1..Len(req[r].snap) : req[r].snap[i].gen \notin removed

\* C11: when a promise of app.handleEvent() rejects during a fan-out, the
\* dispatcher does not catch it: in that step handle() rejects towards its
\* caller, with the handlers called so far and none after, the watermark is
\* not stored, and the request dispatches to no subscription later on.
C11_Thm ==
    /\ [][\A r \in Reqs :
            req'[r].rejected /\ ~req[r].rejected
                => /\ req[r].pc = "awaiting"
                   /\ req'[r].pc = "failed"
                   /\ req'[r].ncalls = Len(req[r].dispatched)
                   /\ req'[r].running = {}
                   /\ webhookLastChangedAt' = webhookLastChangedAt]_vars
    /\ [][\A r \in Reqs : req[r].pc = "failed" => req'[r] = req[r]]_vars
    /\ [](\A r \in Reqs : req[r].rejected <=> req[r].pc = "failed")

\* C11's case: handle() has rejected after the first of two matching
\* subscriptions was dispatched; the second, still in the set, was not.
C11_Witness ==
    \E r \in Reqs :
        /\ req[r].pc = "failed" /\ req[r].rejected
        /\ req[r].ncalls = 1
        /\ Len(ExpectedCalls(eventConfigurations, req[r].body.event)) = 2

\* C13, as claimed: a delivery that enters handle() while the fan-out of
\* another delivery with the same changedAt is suspended on a handler is
\* suppressed, so no two fan-outs of one changedAt are ever under way
\* together.
C13_Claim ==
    \A r1, r2 \in Awaiting :
        r1 # r2 => req[r1].body.event.changedAt # req[r2].body.event.changedAt

\* The step ends the fan-out of event delivery r without error: handle()
\* returns after handleWebhookEvent() has.
FinishesFanout(r) ==
    /\ req[r].pc \in {"idle", "awaiting"}
    /\ req'[r].pc = "done" /\ req'[r].fanout

\* C14: the watermark is undefined until a fan-out has finished; a step
\* changes it only by finishing without error the fan-out of an event
\* delivery that entered a started connector, and every such step leaves it
\* at that event's changedAt. Challenges, deliveries before the start,
\* suppressed duplicates, failed fan-outs, onStart(), on() and
\* onRemoveEvent() finish no fan-out and so leave it as it is.
C14_Thm ==
    /\ []((\A r \in Reqs : ~(req[r].pc = "done" /\ req[r].fanout))
              => webhookLastChangedAt = Undef)
    /\ [][webhookLastChangedAt' # webhookLastChangedAt =>
              \E r \in Reqs :
                  /\ FinishesFanout(r)
                  /\ req'[r].body.challenge = ""
                  /\ req'[r].entry.started /\ started
                  /\ ~req'[r].rejected]_vars
    /\ [][\A r \in Reqs :
              FinishesFanout(r) =>
                  webhookLastChangedAt' = Num(req'[r].body.event.changedAt)]_vars
    /\ [](\A r \in Began :
              req[r].fanout => req[r].entry.started /\ req[r].body.challenge = "")

\* C14's case: a fan-out has finished and stored its stamp, and a later
\* delivery with another stamp, whose fan-out failed, has left it there.
C14_Witness ==
    /\ req[1].pc = "done" /\ req[1].fanout /\ req[1].ncalls > 0
    /\ req[2].pc = "failed"
    /\ req[2].entry.prev.kind = "returned"
    /\ req[2].body.event.changedAt # req[1].body.event.changedAt
    /\ webhookLastChangedAt = Num(req[1].body.event.changedAt)

\* query() has settled on a response of the SDK (the SDK call did not reject).
QueryAnswered ==
    /\ call.op = "query"
    /\ call.pc \in {"returned", "threw"}
    /\ call.error.kind # "Rejected"

\* The response reports an error: an errors list, or an error_message.
ReportsError(res) == res.hasErrors \/ res.error_message # ""

\* C6, as claimed: query() returns the data only for a response without
\* errors, and fails with a MondayError carrying the response for every
\* response that contains errors or an error_message, data beside them or not.
C6_Claim ==
    QueryAnswered =>
        IF ReportsError(call.res)
        THEN call.pc = "threw" /\ call.error.kind = "MondayError"
                               /\ call.error.res = call.res
        ELSE call.pc = "returned" => call.value = call.res.data

\* What query() does for C6: it returns the data payload for every response that
\* has a data property, also when errors or an error_message come with it;
\* for every response without a data property it fails with a MondayError
\* that carries the response, its message naming the single error, the
\* number of errors, or the error_message.
C6_Code ==
    QueryAnswered =>
        IF call.res.data.kind # "absent"
        THEN call.pc = "returned" /\ call.value = call.res.data /\ call.error = NoError
        ELSE /\ call.pc = "threw"
             /\ call.error.kind = "MondayError"
             /\ call.error.res = call.res
             /\ call.error.message[1] = "Monday API Error"
             /\ (call.res.hasErrors /\ Len(call.res.errors) = 1
                    => call.error.message = <<"Monday API Error", call.res.errors[1]>>)
             /\ (~call.res.hasErrors /\ call.res.error_message # ""
                    => call.error.message = <<"Monday API Error", call.res.error_message>>)

\* query() has returned the data of a response that carried errors beside
\* it.
C6_CodeWitness ==
    /\ QueryAnswered /\ call.pc = "returned"
    /\ call.res.hasErrors /\ Len(call.res.errors) = 2
    /\ call.res.data.kind = "object"

\* The documents the operation in progress has sent to the SDK.
Sent ==
    LET Mine(c) == c.n = call.n IN SelectSeq(sdkCalls, Mine)

\* C12, as claimed: createItem without column values has sent only the
\* creation when it returns the id; createItem with column values returns
\* the id only after the updateColumnValues it ran has completed, and when
\* that update fails createItem fails.
C12_Claim ==
    /\ call.creator.pc = "returned" /\ ~call.creator.given
           => call.op = "createItem" /\ Len(Sent) = 1 /\ Sent[1].kind = "createItem"
    /\ call.creator.pc = "returned" /\ call.creator.given
           => call.op = "updateColumnValues" /\ call.pc = "returned"
    /\ call.creator.pc # "none" /\ call.op = "updateColumnValues" /\ call.pc = "threw"
           => call.creator.pc = "threw"

\* What createItem does for C12: it fails exactly when the creation fails
\* (a rejected SDK call, a response without data, or data without
\* create_item), before anything else is sent; otherwise its promise is
\* resolved with the created id in the step that receives the creation's
\* answer, in which the read of updateColumnValues is sent when column
\* values were given, and nothing that happens to the update afterwards
\* changes the promise.
C12_Code ==
    /\ call.creator.pc = "pending" <=> call.pc = "awaitCreate"
    /\ call.creator.pc = "threw"
           => call.op = "createItem" /\ call.pc = "threw" /\ Len(Sent) = 1
    /\ call.creator.pc = "returned"
           => /\ \E res \in CreateResponses :
                     /\ "create_item" \in DOMAIN res.data
                     /\ call.creator.itemId = res.data.create_item.id
              /\ Sent[1].kind = "createItem"
              /\ IF call.creator.given
                 THEN /\ call.op = "updateColumnValues"
                      /\ Len(Sent) >= 2 /\ Sent[2].kind = "readItem"
                 ELSE call.op = "createItem" /\ call.pc = "returned" /\ Len(Sent) = 1

\* createItem has returned the id to its caller and the update it started
\* has failed afterwards: a title names no column of the new item.
C12_CodeWitness ==
    /\ call.creator.pc = "returned" /\ call.creator.given
    /\ call.op = "updateColumnValues" /\ call.pc = "threw" /\ call.read
    /\ call.error.message[1] = "Column title not found: "

\* The mutations updateColumnValues has submitted in the operation in progress.
Mutations ==
    LET Mine(c) == c.n = call.n /\ c.kind = "mutation" IN SelectSeq(sdkCalls, Mine)

Titles(columnValues) == {columnValues[i].title : i \in 1..Len(columnValues)}

\* The first column value of the item with that title.
Column(columnValues, title) ==
    columnValues[CHOOSE i \in 1..Len(columnValues) :
                    /\ columnValues[i].title = title
                    /\ \A j \in 1..(i - 1) : columnValues[j].title # title]

\* Every title of updaters is a column of the item and has a function.
Applicable(columnValues, updaters) ==
    \A k \in 1..Len(updaters) :
        /\ updaters[k].title \in Titles(columnValues)
        /\ updaters[k].updater \in {"inc", "seven", "same"}

\* The payload of the batched mutation: each named column's id with the
\* string of its updater's result on the old value.
ExpectedValues(columnValues, updaters) ==
    [id \in {Column(columnValues, updaters[k].title).id : k \in 1..Len(updaters)} |->
        LET k == CHOOSE k \in 1..Len(updaters) :
                     Column(columnValues, updaters[k].title).id = id
            cv == Column(columnValues, updaters[k].title)
        IN StringOf(ApplyUpdater(updaters[k].updater, JSONParse(cv.value)))]

\* C7: once updateColumnValues has read the item, it submits no mutation and
\* fails if a title of updaters is not among the item's column values or has
\* no function; otherwise it submits exactly one mutation, which maps each
\* named column's id to String(updater(old value)).
C7_Thm ==
    call.op = "updateColumnValues" /\ call.read =>
        IF Applicable(call.item, call.updaters)
        THEN /\ call.pc \in {"awaitMutation", "returned", "threw"}
             /\ Len(Mutations) = 1
             /\ DOMAIN Mutations[1].values = DOMAIN ExpectedValues(call.item, call.updaters)
             /\ \A id \in DOMAIN Mutations[1].values :
                    Mutations[1].values[id] = ExpectedValues(call.item, call.updaters)[id]
        ELSE /\ call.pc = "threw"
             /\ call.error.kind = "Error"
             /\ Mutations = <<>>

\* C7's case: the first title of updaters is a column of the item with a
\* function, the second is not, and the call has failed; an earlier call
\* has submitted its mutation.
C7_Witness ==
    /\ call.op = "updateColumnValues" /\ call.read /\ call.pc = "threw"
    /\ Len(call.updaters) = 2
    /\ call.updaters[1].title \in Titles(call.item)
    /\ call.updaters[1].updater = "inc"
    /\ call.updaters[2].title \notin Titles(call.item)
    /\ \E i \in 1..Len(sdkCalls) :
           /\ sdkCalls[i].kind = "mutation"
           /\ DOMAIN sdkCalls[i].values = {"status", "count"}

====
